---- MODULE Spec2Model ----
(***************************************************************************)
(* The PushProx client (cmd/client/main.go): a single poll loop that       *)
(* claims Jobs from the relay, one goroutine per Job that resolves the     *)
(* Job's target, scrapes and pushes the Result back, and the exponential   *)
(* backoff that paces failed polls.                                        *)
(*                                                                         *)
(* Durations of the backoff are in milliseconds.  Time inside a Job's task *)
(* is counted in ticks since the task derived its deadline; a timeout      *)
(* header of "1" is one tick.                                              *)
(***************************************************************************)
EXTENDS Integers, Sequences, FiniteSets, TLC

VARIABLES
    cfg,                 \* the command line flags, fixed once parsed
    relay,               \* the relay: Jobs it will hand out, poll failures it will cause
    loopPc,              \* position of main / Coordinator.loop
    bo,                  \* the backoff.ExponentialBackOff built by newBackOffFromFlags
    streak,              \* failed polls since the current RetryNotify call began
    prevWait,            \* the previous wait of the same streak (0 when none)
    lastWait,            \* the most recent wait RetryNotify slept (0 when none)
    stopSeen,            \* whether NextBackOff ever answered backoff.Stop
    nJobs,               \* how many Jobs doPoll has decoded so far
    job,                 \* job[j]: the goroutine started for the j-th decoded Job
    pollErrorCounter,
    pushErrorCounter,
    scrapeErrorCounter

vars == <<cfg, relay, loopPc, bo, streak, prevWait, lastWait, stopSeen,
          nJobs, job, pollErrorCounter, pushErrorCounter, scrapeErrorCounter>>

loopVars == <<loopPc, bo, streak, prevWait, lastWait, stopSeen, pollErrorCounter>>

-----------------------------------------------------------------------------
(* Bounds of the model *)

\* Jobs the relay hands out in one run (the job slots of the model)
MaxJobs == 2
\* ticks a Job's task is followed for after it derived its deadline
MaxElapsed == 1
\* poll failures the relay causes in the runs that exercise the backoff
MaxFailures == 6

JobIds == 1..MaxJobs

-----------------------------------------------------------------------------
(* Flags *)

\* --proxy.retry.initial-wait, default "1s"
RetryInitialWait == 1000
\* --proxy.retry.max-wait, default "5s"
RetryMaxWait == 5000

AllowPorts == {"*", "9100"}
TokenPaths == {"", "/var/run/token"}
MatchSets == {<< >>, <<"up">>}

Configs ==
    [allowPort : AllowPorts, useLocalhost : BOOLEAN,
     tokenPath : TokenPaths, matchStrings : MatchSets]

DefaultConfig ==
    [allowPort |-> "*", useLocalhost |-> FALSE, tokenPath |-> "",
     matchStrings |-> <<"up">>]

-----------------------------------------------------------------------------
(* Jobs as the relay encodes them: an HTTP request *)

TimeoutHeaders == {"absent", "abc", "1"}
Ports == {"", "9100", "9200"}
Queries == {{}, {"_scheme=https", "x=1"}}

Fqdn == "node.example"

Request(id, timeoutHdr, port, query) ==
    [id |-> id, timeout |-> timeoutHdr, auth |-> "",
     url |-> [scheme |-> "http", host |-> Fqdn, port |-> port,
              path |-> "/metrics", query |-> query]]

JobId(n) == IF n = 1 THEN "id1" ELSE IF n = 2 THEN "id2" ELSE "id3"

\* every Job shape, for the runs that follow a single Job
AllRequests ==
    {Request(JobId(1), t, p, q) : t \in TimeoutHeaders, p \in Ports, q \in Queries}

\* the Job shapes of the runs that follow several Jobs at once
GoodRequest(n) == Request(JobId(n), "1", "9100", {})
BadRequest(n) == Request(JobId(n), "absent", "9100", {})
DeniedRequest(n) == Request(JobId(n), "1", "9200", {})

NoURL == [scheme |-> "", host |-> "", port |-> "", path |-> "", query |-> {}]
NoRequest == [id |-> "", timeout |-> "absent", auth |-> "", url |-> NoURL]
NoTimeoutHdr == [hasDeadline |-> FALSE, secs |-> 0]
NoResp ==
    [kind |-> "none", status |-> 0, body |-> "", id |-> "", timeoutHdr |-> NoTimeoutHdr]

IdleJob ==
    [pc |-> "idle", orig |-> NoRequest, req |-> NoRequest, ctx |-> "none",
     timeout |-> 0, elapsed |-> 0, scrapes |-> 0, scrapeURL |-> NoURL,
     scrapeId |-> "", resp |-> NoResp, pushes |-> 0, pushCtx |-> "none",
     pushed |-> "none"]

-----------------------------------------------------------------------------
(* util.GetHeaderTimeout: the scrape timeout header as a duration, or an   *)
(* error when the header is missing or is no number.                       *)

GetHeaderTimeout(h) ==
    IF h = "1" THEN [err |-> FALSE, timeout |-> 1]
    ELSE IF h = "2" THEN [err |-> FALSE, timeout |-> 2]
    ELSE [err |-> TRUE, timeout |-> 0]

-----------------------------------------------------------------------------
(* The federate endpoint every scrape goes to *)

\* url.Values.Encode of one match[] parameter per --match flag
MatchParams(matchStrings) ==
    {"match[]=" \o matchStrings[i] : i \in 1..Len(matchStrings)}

\* url.URL{Scheme: "http", Host, Path, RawQuery}; String() puts the "/" before the path
createURL(host, path, params) ==
    [scheme |-> "http", host |-> host, port |-> "", path |-> "/" \o path,
     query |-> params]

\* the request the upstream client made: the Job's own (resolved) request
scrapeJobTarget(c, request) == request.url

\* the URL scrapeFederatedPrometheusEndpoint requests; the Job's request is no input
scrapeFederatedPrometheusEndpoint(c, request) ==
    createURL("prometheus-server.prometheus.svc.cluster.local", "federate",
              MatchParams(c.matchStrings))

\* what the scrape target may answer: a transport error or a response of
\* any status, which may itself carry an "id" header
ScrapeOutcomes ==
    {[err |-> TRUE, status |-> 0, body |-> "", id |-> ""],
     [err |-> FALSE, status |-> 200, body |-> "metrics", id |-> ""],
     [err |-> FALSE, status |-> 503, body |-> "unavailable", id |-> "id2"]}

-----------------------------------------------------------------------------
(* Coordinator.doPush up to its client.Do call *)

\* time.Until(deadline) of the request's context: the ticks left, which is
\* meaningless (the zero time's distance) when the context has no deadline
Remaining(jr) ==
    IF jr.ctx = "timeout"
    THEN [hasDeadline |-> TRUE, secs |-> jr.timeout - jr.elapsed]
    ELSE NoTimeoutHdr

\* a push that keeps an "id" header the response already has (Header.Add)
doPushKeepId(jr, resp) ==
    [jr EXCEPT !.resp = [resp EXCEPT !.id = IF resp.id = "" THEN jr.req.id ELSE resp.id,
                                     !.timeoutHdr = Remaining(jr)],
               !.pushes = @ + 1,
               !.pushCtx = jr.ctx,
               !.pc = "pushing"]

doPush(jr, resp) ==
    [jr EXCEPT !.resp = [resp EXCEPT !.id = jr.req.id,
                                     !.timeoutHdr = Remaining(jr)],
               !.pushes = @ + 1,
               !.pushCtx = jr.ctx,
               !.pc = "pushing"]

\* an error handler that gives the Job up without a push
handleErrNoPush(jr, errText) ==
    [job |-> [jr EXCEPT !.resp = [NoResp EXCEPT !.kind = "synth", !.status = 500,
                                                !.body = errText],
                        !.pc = "done"],
     scrapeErr |-> 1]

\* an error handler that pushes an error Result without the error's text
handleErrEmptyBody(jr, errText) ==
    [job |-> doPush(jr, [NoResp EXCEPT !.kind = "synth", !.status = 500]),
     scrapeErr |-> 1]

\* an error handler that pushes the error Result and counts nothing
handleErrUncounted(jr, errText) ==
    [job |-> doPush(jr, [NoResp EXCEPT !.kind = "synth", !.status = 500,
                                       !.body = errText]),
     scrapeErr |-> 0]

\* Coordinator.handleErr up to the client.Do call of its doPush
handleErr(jr, errText) ==
    [job |-> doPush(jr, [NoResp EXCEPT !.kind = "synth", !.status = 500,
                                       !.body = errText]),
     scrapeErr |-> 1]

-----------------------------------------------------------------------------
(* Coordinator.doScrape *)

PermissionError(port) == "client does not have permissions to scrape port " \o port

\* lines 181-186: the _scheme=https parameter
SchemeOverride(u) ==
    IF "_scheme=https" \in u.query
    THEN [u EXCEPT !.scheme = "https", !.query = @ \ {"_scheme=https"}]
    ELSE u

\* a task that pushes a Result while its scrape request is still out
StartScrapeAndPush(c, jr) ==
    [job |-> [jr EXCEPT !.scrapes = @ + 1,
                        !.scrapeURL = scrapeFederatedPrometheusEndpoint(c, jr.req),
                        !.pushes = @ + 1,
                        !.pushCtx = jr.ctx,
                        !.pc = "scraping"],
     scrapeErr |-> 0]

\* lines 216-222 entered: the outbound scrape request is made
StartScrape(c, jr) ==
    [job |-> [jr EXCEPT !.scrapes = @ + 1,
                        !.scrapeURL = scrapeFederatedPrometheusEndpoint(c, jr.req),
                        !.pc = "scraping"],
     scrapeErr |-> 0]

\* lines 204-213
PortCheck(c, jr) ==
    LET port == jr.req.url.port IN
    IF port # ""
    THEN IF c.allowPort # "*" /\ c.allowPort # port
         THEN handleErr(jr, PermissionError(port))
         ELSE IF c.useLocalhost
              THEN StartScrape(c, [jr EXCEPT !.req.url.host = "127.0.0.1",
                                             !.req.url.port = port])
              ELSE StartScrape(c, jr)
    ELSE StartScrape(c, jr)

\* lines 188-196
TokenStep(c, jr, tokenOk) ==
    IF c.tokenPath # ""
    THEN IF ~tokenOk
         THEN handleErr(jr, "cannot read token from token-path")
         ELSE PortCheck(c, [jr EXCEPT !.req.auth = "Bearer token",
                                      !.req.url.scheme = "https"])
    ELSE PortCheck(c, jr)

\* a doScrape that goes on with a zero timeout when the header is bad
doScrapeIgnoringTimeoutErr(c, jr, tokenOk) ==
    LET t == GetHeaderTimeout(jr.req.timeout) IN
    TokenStep(c, [jr EXCEPT !.ctx = "timeout", !.timeout = t.timeout, !.elapsed = 0,
                            !.req.url = SchemeOverride(@)], tokenOk)

\* doScrape from its start to the scrape call or to the push of a failure
doScrape(c, jr, tokenOk) ==
    LET t == GetHeaderTimeout(jr.req.timeout) IN
    IF t.err
    THEN handleErr([jr EXCEPT !.ctx = "background"], "bad timeout header")
    ELSE TokenStep(c, [jr EXCEPT !.ctx = "timeout", !.timeout = t.timeout,
                                 !.elapsed = 0,
                                 !.req.url = SchemeOverride(@)], tokenOk)

\* doScrape once the scrape call returned: lines 218-224
doScrapeReturned(jr, outcome) ==
    IF outcome.err
    THEN handleErr(jr, "failed to scrape")
    ELSE [job |-> doPush([jr EXCEPT !.scrapeId = outcome.id],
                         [NoResp EXCEPT !.kind = "real",
                                        !.status = outcome.status,
                                        !.body = outcome.body,
                                        !.id = outcome.id]),
          scrapeErr |-> 0]

\* whether the deadline of the context a push runs under has passed
Expired(jr) == jr.pushCtx = "timeout" /\ jr.elapsed >= jr.timeout

-----------------------------------------------------------------------------
(* The backoff policy: backoff.NewExponentialBackOff with the fields       *)
(* newBackOffFromFlags sets.  RandomizationFactor keeps the library's      *)
(* default of 0.5, so a wait is drawn around the current interval.         *)

\* backoff.Stop
Stop == 0 - 1

\* a policy that gives up once the retries took longer than the longest wait
MaxElapsedTimeSet == RetryMaxWait

\* b.MaxElapsedTime = time.Duration(0): the policy never gives up
MaxElapsedTime == 0

\* backoff.DefaultInitialInterval, the current interval until the first Reset
DefaultInitialInterval == 500

newBackOffFromFlags ==
    [InitialInterval |-> RetryInitialWait,
     MaxInterval |-> RetryMaxWait,
     MaxElapsedTime |-> MaxElapsedTime,
     currentInterval |-> DefaultInitialInterval]

\* ExponentialBackOff.Reset
Reset(b) == [b EXCEPT !.currentInterval = b.InitialInterval]

\* the draws of rand.Float64 followed: 0, 1/2 and just under 1
RandomSamples == {0, 1, 2}

\* getRandomValueFromInterval with RandomizationFactor 0.5
getRandomValueFromInterval(random, currentInterval) ==
    LET delta == currentInterval \div 2 IN
    IF random = 0 THEN currentInterval - delta
    ELSE IF random = 1 THEN currentInterval
    ELSE currentInterval + delta

\* incrementCurrentInterval with Multiplier 1.5, capped at MaxInterval
incrementCurrentInterval(b) ==
    IF 3 * b.currentInterval >= 2 * b.MaxInterval
    THEN [b EXCEPT !.currentInterval = b.MaxInterval]
    ELSE [b EXCEPT !.currentInterval = (3 * b.currentInterval) \div 2]

\* ExponentialBackOff.NextBackOff; elapsed is the time since the last Reset
NextBackOff(b, random, elapsed) ==
    LET next == getRandomValueFromInterval(random, b.currentInterval) IN
    [next |-> IF b.MaxElapsedTime # 0 /\ elapsed + next > b.MaxElapsedTime
              THEN Stop ELSE next,
     b |-> incrementCurrentInterval(b)]

\* the times since the last Reset that NextBackOff may read from the clock
ElapsedSamples == {0, 3600000}

-----------------------------------------------------------------------------
(* Initial states *)

InitAgent ==
    /\ loopPc = "main"
    /\ bo = newBackOffFromFlags
    /\ streak = 0
    /\ prevWait = 0
    /\ lastWait = 0
    /\ stopSeen = FALSE
    /\ nJobs = 0
    /\ job = [j \in JobIds |-> IdleJob]
    /\ pollErrorCounter = 0
    /\ pushErrorCounter = 0
    /\ scrapeErrorCounter = 0

\* flags under which every path of doScrape can be taken
StrictConfig ==
    [allowPort |-> "9100", useLocalhost |-> TRUE, tokenPath |-> "/var/run/token",
     matchStrings |-> <<"up">>]

\* the queues of MaxJobs Jobs: the windows of a cycle of two good Jobs, one
\* without a timeout header and one for a port that is not allowed
QueuePattern == <<"good", "good", "bad", "denied">>

KindAt(offset, n) == QueuePattern[((offset + n - 2) % Len(QueuePattern)) + 1]

QueueOf(offset) ==
    [n \in JobIds |-> IF KindAt(offset, n) = "good" THEN GoodRequest(n)
                      ELSE IF KindAt(offset, n) = "bad" THEN BadRequest(n)
                      ELSE DeniedRequest(n)]

JobQueues == {QueueOf(offset) : offset \in 1..Len(QueuePattern)}

\* several Jobs in flight at once, one failed poll
Init ==
    /\ InitAgent
    /\ cfg = StrictConfig
    /\ relay \in {[queue |-> q, failures |-> 1] : q \in JobQueues}

\* one Job of any shape under any flags, one failed poll
InitTask ==
    /\ InitAgent
    /\ cfg \in Configs
    /\ relay \in {[queue |-> <<r>>, failures |-> 1] : r \in AllRequests}

\* a relay that fails polls again and again, and holds a single Job
InitBackOff ==
    /\ InitAgent
    /\ cfg = DefaultConfig
    /\ relay = [queue |-> <<GoodRequest(1)>>, failures |-> MaxFailures]

-----------------------------------------------------------------------------
(* main and Coordinator.loop *)

\* a main that starts the loop with --use-localhost and any port allowed
mainNoLocalhostCheck ==
    /\ loopPc = "main"
    /\ IF Len(cfg.matchStrings) = 0
       THEN loopPc' = "exited" /\ bo' = bo
       ELSE loopPc' = "polling" /\ bo' = Reset(bo)
    /\ UNCHANGED <<cfg, relay, streak, prevWait, lastWait, stopSeen, nJobs, job,
                   pollErrorCounter, pushErrorCounter, scrapeErrorCounter>>

\* main, lines 311-399: the flag checks, then the loop's first RetryNotify
main ==
    /\ loopPc = "main"
    /\ IF Len(cfg.matchStrings) = 0
       THEN loopPc' = "exited" /\ bo' = bo
       ELSE IF cfg.useLocalhost /\ cfg.allowPort = "*"
            THEN loopPc' = "exited" /\ bo' = bo
            ELSE loopPc' = "polling" /\ bo' = Reset(bo)
    /\ UNCHANGED <<cfg, relay, streak, prevWait, lastWait, stopSeen, nJobs, job,
                   pollErrorCounter, pushErrorCounter, scrapeErrorCounter>>

\* the record of a goroutine just started on a decoded request
Spawned(r) == [IdleJob EXCEPT !.pc = "spawned", !.orig = r, !.req = r]

\* a doPoll that runs doScrape itself: it returns once the Job's task ended
doPollInline ==
    /\ loopPc = "polling"
    /\ relay.queue # << >>
    /\ nJobs < MaxJobs
    /\ \A j \in JobIds : job[j].pc \in {"idle", "done"}
    /\ job' = [job EXCEPT ![nJobs + 1] = Spawned(Head(relay.queue))]
    /\ nJobs' = nJobs + 1
    /\ relay' = [relay EXCEPT !.queue = Tail(@)]
    /\ bo' = Reset(bo)
    /\ streak' = 0
    /\ prevWait' = 0
    /\ UNCHANGED <<cfg, loopPc, lastWait, stopSeen,
                   pollErrorCounter, pushErrorCounter, scrapeErrorCounter>>

\* a doPoll that starts two tasks on the request it read
doPollTwice ==
    /\ loopPc = "polling"
    /\ relay.queue # << >>
    /\ nJobs + 1 < MaxJobs
    /\ job' = [job EXCEPT ![nJobs + 1] = Spawned(Head(relay.queue)),
                          ![nJobs + 2] = Spawned(Head(relay.queue))]
    /\ nJobs' = nJobs + 2
    /\ relay' = [relay EXCEPT !.queue = Tail(@)]
    /\ bo' = Reset(bo)
    /\ streak' = 0
    /\ prevWait' = 0
    /\ UNCHANGED <<cfg, loopPc, lastWait, stopSeen,
                   pollErrorCounter, pushErrorCounter, scrapeErrorCounter>>

\* a doPoll after which the retry loop goes on with the policy as it is
doPollNoReset ==
    /\ loopPc = "polling"
    /\ relay.queue # << >>
    /\ nJobs < MaxJobs
    /\ job' = [job EXCEPT ![nJobs + 1] = Spawned(Head(relay.queue))]
    /\ nJobs' = nJobs + 1
    /\ relay' = [relay EXCEPT !.queue = Tail(@)]
    /\ streak' = 0
    /\ prevWait' = 0
    /\ UNCHANGED <<cfg, loopPc, bo, lastWait, stopSeen,
                   pollErrorCounter, pushErrorCounter, scrapeErrorCounter>>

\* doPoll answered with a Job: go doScrape, return nil; RetryNotify returns
\* and the loop calls it again, which resets the policy
doPoll ==
    /\ loopPc = "polling"
    /\ relay.queue # << >>
    /\ nJobs < MaxJobs
    /\ job' = [job EXCEPT ![nJobs + 1] = Spawned(Head(relay.queue))]
    /\ nJobs' = nJobs + 1
    /\ relay' = [relay EXCEPT !.queue = Tail(@)]
    /\ bo' = Reset(bo)
    /\ streak' = 0
    /\ prevWait' = 0
    /\ UNCHANGED <<cfg, loopPc, lastWait, stopSeen,
                   pollErrorCounter, pushErrorCounter, scrapeErrorCounter>>

\* doPoll returned an error (the Post failed, or the answer was no request):
\* RetryNotify asks the policy, notifies and sleeps; on Stop it returns the
\* error and the loop calls it again
doPollFailed ==
    /\ loopPc = "polling"
    /\ relay.failures > 0
    /\ \E random \in RandomSamples, elapsed \in ElapsedSamples :
          LET nb == NextBackOff(bo, random, elapsed) IN
          IF nb.next = Stop
          THEN /\ stopSeen' = TRUE
               /\ bo' = Reset(nb.b)
               /\ streak' = 0
               /\ prevWait' = 0
               /\ UNCHANGED <<loopPc, lastWait, pollErrorCounter>>
          ELSE /\ pollErrorCounter' = pollErrorCounter + 1
               /\ bo' = nb.b
               /\ streak' = streak + 1
               /\ prevWait' = (IF streak = 0 THEN 0 ELSE lastWait)
               /\ lastWait' = nb.next
               /\ loopPc' = "waiting"
               /\ UNCHANGED stopSeen
    /\ relay' = [relay EXCEPT !.failures = @ - 1]
    /\ UNCHANGED <<cfg, nJobs, job, pushErrorCounter, scrapeErrorCounter>>

\* the timer of RetryNotify fires: the operation is tried again
timerFired ==
    /\ loopPc = "waiting"
    /\ loopPc' = "polling"
    /\ UNCHANGED <<cfg, relay, bo, streak, prevWait, lastWait, stopSeen, nJobs, job,
                   pollErrorCounter, pushErrorCounter, scrapeErrorCounter>>

-----------------------------------------------------------------------------
(* A Job's goroutine *)

\* a task whose failure is reported to the retry loop as a failed poll
scrapeStepFailsPoll(j) ==
    /\ job[j].pc = "spawned"
    /\ \E tokenOk \in BOOLEAN :
          LET r == doScrape(cfg, job[j], tokenOk) IN
          /\ job' = [job EXCEPT ![j] = r.job]
          /\ scrapeErrorCounter' = scrapeErrorCounter + r.scrapeErr
          /\ pollErrorCounter' = pollErrorCounter + r.scrapeErr
          /\ streak' = streak + r.scrapeErr
    /\ UNCHANGED <<cfg, relay, loopPc, bo, prevWait, lastWait, stopSeen,
                   nJobs, pushErrorCounter>>

\* doScrape runs up to its scrape call, or to the push of a failure
scrapeStep(j) ==
    /\ job[j].pc = "spawned"
    /\ \E tokenOk \in BOOLEAN :
          LET r == doScrape(cfg, job[j], tokenOk) IN
          /\ job' = [job EXCEPT ![j] = r.job]
          /\ scrapeErrorCounter' = scrapeErrorCounter + r.scrapeErr
    /\ UNCHANGED <<cfg, relay, loopVars, nJobs, pushErrorCounter>>

\* tasks that hand over their Results in the order their Jobs were decoded
scrapeReturnedInOrder(j) ==
    /\ job[j].pc = "scraping"
    /\ \A k \in 1..(j - 1) : job[k].pushes > 0
    /\ \E outcome \in ScrapeOutcomes :
          LET r == doScrapeReturned(job[j], outcome) IN
          /\ job' = [job EXCEPT ![j] = r.job]
          /\ scrapeErrorCounter' = scrapeErrorCounter + r.scrapeErr
    /\ UNCHANGED <<cfg, relay, loopVars, nJobs, pushErrorCounter>>

\* the scrape call returns, with a response or an error
scrapeReturned(j) ==
    /\ job[j].pc = "scraping"
    /\ \E outcome \in ScrapeOutcomes :
          LET r == doScrapeReturned(job[j], outcome) IN
          /\ job' = [job EXCEPT ![j] = r.job]
          /\ scrapeErrorCounter' = scrapeErrorCounter + r.scrapeErr
    /\ UNCHANGED <<cfg, relay, loopVars, nJobs, pushErrorCounter>>

\* a push that is made a second time after it failed
pushReturnedRetry(j) ==
    /\ job[j].pc = "pushing"
    /\ \E ok \in BOOLEAN :
          /\ ok => ~Expired(job[j])
          /\ job' = IF ~ok /\ job[j].pushes < 2
                    THEN [job EXCEPT ![j].pushes = @ + 1]
                    ELSE [job EXCEPT ![j].pc = "done",
                                     ![j].pushed = IF ok THEN "ok" ELSE "err"]
          /\ pushErrorCounter' = pushErrorCounter + (IF ok THEN 0 ELSE 1)
    /\ UNCHANGED <<cfg, relay, loopVars, nJobs, scrapeErrorCounter>>

\* client.Do of doPush returns; an expired context lets it only fail
pushReturned(j) ==
    /\ job[j].pc = "pushing"
    /\ \E ok \in BOOLEAN :
          /\ ok => ~Expired(job[j])
          /\ job' = [job EXCEPT ![j].pc = "done",
                                ![j].pushed = IF ok THEN "ok" ELSE "err"]
          /\ pushErrorCounter' = pushErrorCounter + (IF ok THEN 0 ELSE 1)
    /\ UNCHANGED <<cfg, relay, loopVars, nJobs, scrapeErrorCounter>>

\* time passes for a task that holds a deadline
tick(j) ==
    /\ job[j].pc \in {"scraping", "pushing"}
    /\ job[j].ctx = "timeout"
    /\ job[j].elapsed < MaxElapsed
    /\ job' = [job EXCEPT ![j].elapsed = @ + 1]
    /\ UNCHANGED <<cfg, relay, loopVars, nJobs,
                   pushErrorCounter, scrapeErrorCounter>>

-----------------------------------------------------------------------------
Next ==
    \/ main
    \/ doPoll
    \/ doPollFailed
    \/ timerFired
    \/ \E j \in JobIds : scrapeStep(j)
    \/ \E j \in JobIds : scrapeReturned(j)
    \/ \E j \in JobIds : pushReturned(j)
    \/ \E j \in JobIds : tick(j)

Spec == Init /\ [][Next]_vars
SpecTask == InitTask /\ [][Next]_vars
SpecBackOff == InitBackOff /\ [][Next]_vars

-----------------------------------------------------------------------------
(* Properties *)

Decoded(j) == job[j].pc # "idle"
InFlight(j) == job[j].pc \in {"spawned", "scraping", "pushing"}

\* C1: every decoded Job gets exactly one push request: none before its task
\* reaches doPush, one from then on, whatever path doScrape took, never two.
C1_ExactlyOnePush ==
    \A j \in JobIds :
        /\ job[j].pushes <= 1
        /\ job[j].pc \in {"pushing", "done"} <=> job[j].pushes = 1
        /\ job[j].pc \in {"idle", "spawned", "scraping"} <=> job[j].pushes = 0

\* two Jobs ended on different paths (a header error, a scrape), one push each
C1_Witness ==
    \E j, k \in JobIds :
        /\ job[j].pc = "done" /\ job[j].resp.kind = "synth" /\ job[j].scrapes = 0
        /\ job[k].pc = "done" /\ job[k].resp.kind = "real" /\ job[k].scrapes = 1
        /\ job[j].pushes = 1 /\ job[k].pushes = 1

\* C2: a pushed Result carries the id of the Job it was produced for, and so
\* never the id of another decoded Job, also when the scrape response had an id.
C2_ResultIdIsJobId ==
    \A j \in JobIds :
        job[j].pushes > 0 =>
            /\ job[j].resp.id = job[j].orig.id
            /\ \A k \in JobIds \ {j} : Decoded(k) => job[j].resp.id # job[k].orig.id

\* Job 1 is pushed though its scrape response carried the id of Job 2, which
\* is in flight at the same time
C2_Witness ==
    /\ MaxJobs >= 2
    /\ job[1].pushes = 1 /\ job[1].scrapeId = "id2" /\ job[1].pc = "pushing"
    /\ InFlight(2) /\ job[2].orig.id = "id2"

\* C3 (as claimed): a scrape whose deadline passed while it was in flight is
\* cancelled, so its Job ends with a synthesized timeout failure.
C3_ExpiredScrapeFails ==
    \A j \in JobIds :
        (/\ job[j].scrapes > 0
         /\ job[j].pushes > 0
         /\ job[j].resp.timeoutHdr.hasDeadline
         /\ job[j].resp.timeoutHdr.secs <= 0)
        => job[j].resp.kind = "synth"

\* C4 (as claimed): with a specific allowed port, a Job whose target port is
\* another one is never scraped and its Result is a synthesized denial.
C4_OtherPortNeverScraped ==
    \A j \in JobIds :
        (Decoded(j) /\ cfg.allowPort # "*" /\ job[j].orig.url.port # cfg.allowPort)
        => /\ job[j].scrapes = 0
           /\ job[j].pushes > 0 => job[j].resp.kind = "synth"

\* C5: a Job whose timeout header is absent or unparsable is never scraped and
\* an error Result (status 500) is pushed for it.
C5_BadTimeoutNoScrape ==
    \A j \in JobIds :
        (Decoded(j) /\ job[j].orig.timeout \in {"absent", "abc"})
        => /\ job[j].scrapes = 0
           /\ job[j].pc # "scraping"
           /\ job[j].pc # "spawned" =>
                 /\ job[j].pushes = 1
                 /\ job[j].resp.kind = "synth"
                 /\ job[j].resp.status = 500

C5_Witness ==
    \E j \in JobIds :
        /\ job[j].orig.timeout = "abc"
        /\ job[j].pc = "done"
        /\ job[j].pushes = 1

\* C6 (as claimed): the outbound scrape request is the Job's URL after the
\* scheme-override, bearer-token and loopback rewrites.
C6_ScrapesResolvedTarget ==
    \A j \in JobIds : job[j].scrapes > 0 => job[j].scrapeURL = job[j].req.url

FederateEndpoint ==
    [scheme |-> "http", host |-> "prometheus-server.prometheus.svc.cluster.local",
     port |-> "", path |-> "/federate", query |-> {"match[]=up"}]

\* C6 (amended): a Job that passes the timeout, token and port checks is
\* scraped once, at the fixed federate endpoint with the --match parameters
\* and not at its own URL; the rewrites change only the Job's own request.
C6_ScrapesFederateEndpoint ==
    \A j \in JobIds :
        /\ job[j].scrapes <= 1
        /\ job[j].scrapes = 1 =>
              /\ job[j].scrapeURL = FederateEndpoint
              /\ job[j].scrapeURL # job[j].req.url
              /\ "_scheme=https" \notin job[j].req.url.query
              /\ job[j].req.url.query = job[j].orig.url.query \ {"_scheme=https"}
              /\ job[j].req.url.scheme =
                    (IF "_scheme=https" \in job[j].orig.url.query \/ cfg.tokenPath # ""
                     THEN "https" ELSE "http")
              /\ job[j].req.url.path = job[j].orig.url.path
        /\ (job[j].pc \in {"scraping", "pushing", "done"} /\ job[j].resp.kind # "synth")
              => job[j].scrapes = 1

\* a Job with _scheme=https and the allowed port, under loopback and a token,
\* is being scraped
C6_Witness ==
    \E j \in JobIds :
        /\ job[j].pc = "scraping"
        /\ job[j].scrapes = 1
        /\ "_scheme=https" \in job[j].orig.url.query
        /\ job[j].req.url.host = "127.0.0.1"
        /\ job[j].req.auth # ""

\* C7 (as claimed): under use-localhost every Job that reaches the scrape has
\* host 127.0.0.1 and the port of the original target, explicit or not.
C7_LoopbackRewrite ==
    \A j \in JobIds :
        (cfg.useLocalhost /\ job[j].scrapes > 0)
        => /\ job[j].req.url.host = "127.0.0.1"
           /\ job[j].req.url.port = job[j].orig.url.port

\* C8: the poll loop never waits on a job task: whenever the loop is in its
\* poll and the relay has a Job, the poll can return and start the next task,
\* and a sleeping loop can wake, whatever the earlier tasks are doing.
C8_PollNeverWaitsOnJobs ==
    /\ (loopPc = "polling" /\ relay.queue # << >> /\ nJobs < MaxJobs) => ENABLED doPoll
    /\ (loopPc = "polling" /\ relay.failures > 0) => ENABLED doPollFailed
    /\ loopPc = "waiting" => ENABLED timerFired

\* every Job the relay handed out is in flight at once, none has ended, and
\* the loop is in its next poll
C8_Witness ==
    /\ nJobs = MaxJobs
    /\ \A j \in JobIds : job[j].pc \in {"scraping", "pushing"}
    /\ \E j \in JobIds : job[j].pc = "scraping"
    /\ \E j \in JobIds : job[j].pc = "pushing"
    /\ loopPc = "polling"
    /\ pollErrorCounter = 1

\* min(initial * 1.5^(k-1), max) in milliseconds
RECURSIVE NominalWait(_)
NominalWait(k) ==
    IF k <= 1 THEN RetryInitialWait
    ELSE LET w == (3 * NominalWait(k - 1)) \div 2 IN
         IF w > RetryMaxWait THEN RetryMaxWait ELSE w

\* C9 (as claimed): the k-th wait of a streak is min(initial * 1.5^(k-1), max),
\* the waits of a streak never decrease and none exceeds the maximum.
C9_WaitsNominal ==
    /\ streak >= 1 => lastWait = NominalWait(streak)
    /\ streak >= 2 => prevWait <= lastWait
    /\ lastWait <= RetryMaxWait

\* C10: the loop never gives up: it is always polling or sleeping, a sleep
\* always ends in another poll, and the policy never answers Stop.
C10_NeverGivesUp ==
    /\ [](loopPc \in {"main", "polling", "waiting"})
    /\ [](~stopSeen)
    /\ (loopPc = "waiting") ~> (loopPc = "polling")
    /\ (loopPc = "main") ~> (loopPc = "polling")

\* the loop polls again after five failed polls in a row
C10_Witness ==
    /\ streak >= 5
    /\ loopPc = "polling"
    /\ pollErrorCounter >= 5

\* the timer of a sleep fires, and main runs
FairSpecBackOff ==
    InitBackOff /\ [][Next]_vars /\ WF_vars(timerFired) /\ WF_vars(main)


\* C11: every push, on every path that pushes (the error paths taken without
\* a valid timeout header included), is issued under the deadline derived
\* from the Job's timeout header and carries the time left to that deadline.
C11_PushUnderJobDeadline ==
    \A j \in JobIds :
        job[j].pushes > 0 =>
            /\ job[j].pushCtx = "timeout"
            /\ job[j].resp.timeoutHdr.hasDeadline


\* the Jobs whose push failed
FailedPushes == {j \in JobIds : job[j].pushed = "err"}

\* C12: a failed push is terminal for its Job: the push-error counter is
\* incremented exactly once for it, the Job was pushed once and scraped at
\* most once, its task has ended and nothing is done for the Job afterwards.
C12_FailedPushIsTerminal ==
    /\ [](\A j \in FailedPushes :
            /\ job[j].pc = "done"
            /\ job[j].pushes = 1
            /\ job[j].scrapes <= 1)
    /\ [](pushErrorCounter = Cardinality(FailedPushes))
    /\ [][\A j \in FailedPushes : job'[j] = job[j]]_vars

\* the push of a real scrape response failed while the agent went on to
\* serve the next Job
C12_Witness ==
    \E j \in FailedPushes, k \in JobIds :
        /\ job[j].scrapes = 1
        /\ job[j].resp.kind = "real"
        /\ k > j
        /\ job[k].pushed = "ok"
        /\ pushErrorCounter = 1


\* a step of a Job's task: the tasks change, and no task is started
JobTaskStep == job' # job /\ nJobs' = nJobs

\* C13: Job-level outcomes never reach the driver loop: no step of a Job's
\* task changes the backoff state, the wait, the position of the loop or the
\* poll-error counter; the counter moves, and a wait begins, only in a step
\* of the loop in which a poll fails, and a decoded poll ends the streak.
C13_JobOutcomesStayInTask ==
    /\ [][JobTaskStep => UNCHANGED loopVars]_vars
    /\ [][(pollErrorCounter' # pollErrorCounter
            \/ (loopPc # "waiting" /\ loopPc' = "waiting")) =>
            /\ loopPc = "polling"
            /\ relay'.failures = relay.failures - 1
            /\ pollErrorCounter' = pollErrorCounter + 1
            /\ UNCHANGED <<job, nJobs>>]_vars
    /\ [][nJobs' # nJobs => streak' = 0 /\ loopPc' = "polling"]_vars

\* one Job ended in a synthesized error, the push of another failed, and
\* the loop has counted no failure and is polling at the reset policy
C13_Witness ==
    \E j, k \in JobIds :
        /\ job[j].pc = "done" /\ job[j].resp.kind = "synth"
        /\ job[k].pc = "done" /\ job[k].pushed = "err"
        /\ j # k
        /\ pollErrorCounter = 0
        /\ streak = 0
        /\ loopPc = "polling"
        /\ bo = Reset(bo)


\* the tasks a step starts
Started == {j \in JobIds : job[j].pc = "idle" /\ job'[j].pc # "idle"}

\* C14: a poll that decoded a Job starts exactly one task, on that Job; a
\* poll that failed starts none; so the tasks started are as many as the
\* polls that succeeded, no two tasks run the same Job, and a task is never
\* handed another Job or started again.
C14_OneTaskPerDecodedPoll ==
    /\ [][relay'.queue # relay.queue =>
            /\ relay'.queue = Tail(relay.queue)
            /\ Cardinality(Started) = 1
            /\ \A j \in Started : job'[j].orig = Head(relay.queue)
            /\ nJobs' = nJobs + 1]_vars
    /\ [][relay'.queue = relay.queue => Started = {} /\ nJobs' = nJobs]_vars
    /\ [][\A j \in JobIds : Decoded(j) =>
            /\ job'[j].orig = job[j].orig
            /\ job'[j].pc = "spawned" => job'[j] = job[j]]_vars
    /\ [](/\ Cardinality({j \in JobIds : Decoded(j)}) = nJobs
          /\ nJobs = MaxJobs - Len(relay.queue)
          /\ \A j, k \in JobIds :
                (Decoded(j) /\ Decoded(k) /\ j # k) =>
                    job[j].orig.id # job[k].orig.id)

\* every Job of the relay was decoded and has a task, the failed poll has
\* started none
C14_Witness ==
    /\ relay.queue = << >>
    /\ relay.failures = 0
    /\ pollErrorCounter = 1
    /\ nJobs = MaxJobs
    /\ \A j \in JobIds : Decoded(j)


\* C15: within a Job's task the order is total: the scrape starts only in a
\* task started on a decoded Job, the push starts only once the scrape has
\* returned or was skipped by an earlier failure, and while the scrape is
\* out nothing has been pushed for the Job.
C15_PollScrapePushInOrder ==
    /\ [](\A j \in JobIds :
            /\ job[j].pc \in {"idle", "spawned"} =>
                  job[j].scrapes = 0 /\ job[j].pushes = 0
            /\ job[j].pc = "scraping" =>
                  job[j].scrapes = 1 /\ job[j].pushes = 0
            /\ job[j].pushes > 0 => job[j].pc \in {"pushing", "done"}
            /\ job[j].scrapes > 0 => Decoded(j) /\ job[j].orig # NoRequest)
    /\ [][\A j \in JobIds :
            /\ job'[j].scrapes > job[j].scrapes =>
                  /\ job[j].pc = "spawned"
                  /\ job'[j].pc = "scraping"
            /\ job'[j].pushes > job[j].pushes =>
                  /\ job'[j].pc = "pushing"
                  /\ \/ job[j].pc = "scraping"
                     \/ /\ job[j].pc = "spawned"
                        /\ job'[j].scrapes = 0
                        /\ job'[j].resp.kind = "synth"]_vars

\* two pushes are out: one of a Job whose scrape returned an error, one of
\* a Job that failed before its scrape
C15_Witness ==
    \E j, k \in JobIds :
        /\ job[j].pc = "pushing" /\ job[j].scrapes = 1
        /\ job[j].resp.kind = "synth" /\ job[j].pushes = 1
        /\ job[k].pc = "pushing" /\ job[k].scrapes = 0 /\ job[k].pushes = 1


\* C16: there is no ordering across Jobs: a task never waits for the task
\* of another Job, whatever that one has or has not done yet, so the Result
\* of a Job decoded later can be pushed before that of a Job decoded
\* earlier.
C16_TasksRunUnordered ==
    \A j \in JobIds :
        /\ job[j].pc = "spawned" => ENABLED scrapeStep(j)
        /\ job[j].pc = "scraping" => ENABLED scrapeReturned(j)
        /\ job[j].pc = "pushing" => ENABLED pushReturned(j)

\* Job a was decoded by an earlier poll than Job b; the scrape of a is still
\* out and nothing was pushed for it while the Result of b has been pushed
C16_Witness ==
    \E a, b \in JobIds :
        /\ a < b
        /\ job[a].pc = "scraping" /\ job[a].pushes = 0
        /\ job[b].resp.kind = "real" /\ job[b].pushes = 1 /\ job[b].pushed = "ok"


\* the Result handleErr synthesizes for an error text, as doPush sends it
IsErrorResult(jr, errText) ==
    /\ jr.resp.kind = "synth"
    /\ jr.resp.status = 500
    /\ jr.resp.body = errText
    /\ jr.pushes = 1
    /\ jr.pc = "pushing"

\* the port rule of the flags denies the port the request names
PortDenied(c, r) ==
    r.url.port # "" /\ c.allowPort # "*" /\ c.allowPort # r.url.port

\* C17: on every Job-level failure (timeout header missing or malformed,
\* token unreadable, port not allowed, scrape transport error) the Result
\* given to the push is synthesized with status 500 and the error text as
\* its body, and its push is made; after a successful scrape the Result
\* given to the push is the response received, status and body unchanged.
C17_ErrorResultOrRealResponse ==
    /\ [][\A j \in JobIds :
            (job[j].pc = "spawned" /\ job'[j] # job[j]) =>
                LET r == job[j].orig
                    badHeader == r.timeout \in {"absent", "abc"}
                    tokenRead == cfg.tokenPath # "" => job'[j].req.auth # ""
                IN  IF badHeader
                    THEN IsErrorResult(job'[j], "bad timeout header")
                    ELSE IF ~tokenRead
                    THEN IsErrorResult(job'[j], "cannot read token from token-path")
                    ELSE IF PortDenied(cfg, r)
                    THEN IsErrorResult(job'[j], PermissionError(r.url.port))
                    ELSE job'[j].pc = "scraping" /\ job'[j].pushes = 0]_vars
    /\ [][\A j \in JobIds :
            (job[j].pc = "scraping" /\ job'[j].pc # "scraping") =>
                \/ IsErrorResult(job'[j], "failed to scrape")
                \/ /\ job'[j].resp.kind = "real"
                   /\ job'[j].pushes = 1
                   /\ job'[j].pc = "pushing"
                   /\ \E o \in ScrapeOutcomes :
                         /\ ~o.err
                         /\ job'[j].resp.status = o.status
                         /\ job'[j].resp.body = o.body
                         /\ job'[j].scrapeId = o.id]_vars
    /\ [][\A j \in JobIds :
            job[j].pushes > 0 => job'[j].resp = job[j].resp]_vars

\* the token file could not be read: the error Result with that text was
\* pushed and the relay took it
C17_Witness ==
    \E j \in JobIds :
        /\ job[j].pc = "done"
        /\ job[j].pushed = "ok"
        /\ job[j].scrapes = 0
        /\ job[j].resp.status = 500
        /\ job[j].resp.body = "cannot read token from token-path"


\* the first failed poll of a streak that follows an earlier streak
FirstFailureAfterSuccess ==
    streak = 0 /\ streak' = 1 /\ nJobs > 0 /\ pollErrorCounter > 0

\* C18 (as claimed): the backoff state persists across successful polls: no
\* transition of the running loop resets it, and the first wait after a
\* failure that follows a success is not smaller than the last wait of the
\* streak before.
C18_BackOffNeverReset ==
    /\ [][loopPc # "main" => bo'.currentInterval >= bo.currentInterval]_vars
    /\ [][FirstFailureAfterSuccess => lastWait' >= lastWait]_vars

\* C18 (amended): the one policy object built at startup keeps its settings
\* and is used by every retry-loop invocation, but each invocation resets
\* it: after a successful poll the current interval is the initial wait
\* again, and the first wait after the next failure is drawn around the
\* initial wait, whatever the last wait of the streak before was.
C18_BackOffResetBySuccess ==
    /\ [](/\ bo.InitialInterval = RetryInitialWait
          /\ bo.MaxInterval = RetryMaxWait)
    /\ [](loopPc = "polling" /\ streak = 0 =>
             bo.currentInterval = RetryInitialWait)
    /\ [][nJobs' # nJobs => bo'.currentInterval = RetryInitialWait]_vars
    /\ [][FirstFailureAfterSuccess =>
             /\ lastWait' >= RetryInitialWait - RetryInitialWait \div 2
             /\ lastWait' <= RetryInitialWait + RetryInitialWait \div 2]_vars

\* three polls failed, one succeeded, and the wait after the next failure
\* is half the initial wait, below any third wait of a streak
C18_Witness ==
    /\ pollErrorCounter = 4
    /\ nJobs = 1
    /\ streak = 1
    /\ loopPc = "waiting"
    /\ lastWait = RetryInitialWait \div 2


\* the Jobs that got a synthesized error Result
ErrorResults == {j \in JobIds : job[j].resp.kind = "synth"}

\* a step in which a poll fails
PollFails == loopPc = "polling" /\ relay'.failures = relay.failures - 1

\* C19: the three failure counters never decrease and lose no update under
\* any interleaving of the loop and the tasks: the poll-error counter moves
\* by one with every failed poll and with nothing else, the push-error
\* counter is the number of failed pushes, and the scrape-error counter is
\* the number of synthesized error Results, so a Job whose scrape succeeded
\* and whose push failed counts as a push error only.
C19_CountersCountFailures ==
    /\ [](pushErrorCounter = Cardinality({j \in JobIds : job[j].pushed = "err"}))
    /\ [](scrapeErrorCounter = Cardinality(ErrorResults))
    /\ [](pollErrorCounter + relay.failures = 1)
    /\ [][/\ pollErrorCounter' = pollErrorCounter + (IF PollFails THEN 1 ELSE 0)
          /\ pushErrorCounter' >= pushErrorCounter
          /\ scrapeErrorCounter' >= scrapeErrorCounter]_vars
    /\ [](\A j \in JobIds :
            (job[j].resp.kind = "real" /\ job[j].pushed = "err") =>
                /\ scrapeErrorCounter < nJobs
                /\ pushErrorCounter >= 1)

\* all is quiet after one failed poll, one Job with a synthesized error
\* that was pushed, and one Job scraped well whose push failed
C19_Witness ==
    /\ \A j \in JobIds : job[j].pc = "done"
    /\ relay.queue = << >>
    /\ loopPc = "polling"
    /\ pollErrorCounter = 1 /\ pushErrorCounter = 1 /\ scrapeErrorCounter = 1
    /\ \E j, k \in JobIds :
          /\ job[j].resp.kind = "real" /\ job[j].pushed = "err"
          /\ job[k].resp.kind = "synth" /\ job[k].pushed = "ok"


\* C20: loopback access is confined to the one allowed port: with
\* --use-localhost and --allow-port "*" the agent never polls, and whenever
\* the host of a Job's request was rewritten to 127.0.0.1, the port beside
\* it is the allowed port of the flags.
C20_LoopbackOnlyAllowedPort ==
    /\ (cfg.useLocalhost /\ cfg.allowPort = "*") =>
          /\ loopPc \in {"main", "exited"}
          /\ nJobs = 0
          /\ pollErrorCounter = 0
    /\ \A j \in JobIds :
          job[j].req.url.host = "127.0.0.1" =>
              /\ cfg.useLocalhost
              /\ cfg.allowPort # "*"
              /\ job[j].req.url.port = cfg.allowPort

\* the request of a Job for the allowed port now names 127.0.0.1:9100
C20_Witness ==
    \E j \in JobIds :
        /\ job[j].orig.url.host = Fqdn
        /\ job[j].req.url.host = "127.0.0.1"
        /\ job[j].req.url.port = "9100"
        /\ cfg.allowPort = "9100"
        /\ job[j].pc = "scraping"

====
